---- MODULE Spec2Model ----
(***************************************************************************)
(* AuthService: the registration / verification workflow of DBService      *)
(* (auth_service/db/service.py) run by concurrent request tasks against a  *)
(* store with serializable transactions.                                   *)
(*                                                                         *)
(* The store is PostgreSQL at isolation "serializable": an attempt reads   *)
(* the committed state as of its start, buffers its insert, and at commit  *)
(* either applies it or is refused with SerializationError.  An attempt is *)
(* refused for certain when a transaction that ran concurrently with it    *)
(* has committed and the two form a read/write cycle (both read a          *)
(* predicate the other inserted into); it may or may not be refused when   *)
(* only a one-way dependency on the same email exists (predicate locks are *)
(* coarser than rows).                                                     *)
(*                                                                         *)
(* The INSERT of _verify_newcomer is modelled by the text of its SQL: the  *)
(* placeholders $1..$5 of the VALUES list take the first five arguments;   *)
(* what the driver makes of the two arguments left over is not part of     *)
(* the sources.                                                            *)
(***************************************************************************)
EXTENDS Integers, Sequences, FiniteSets, TLC

\* ------------------------------------------------------------- bounds
NProcs == 2          \* concurrent request tasks
MaxCalls == 4        \* requests served in one run
MaxTime == 1         \* the clock runs 0..MaxTime
MaxRetries == 2      \* n_transaction_retries is drawn from 1..MaxRetries
MaxCap == 2          \* max_newcomers_with_same_email is drawn from 1..MaxCap
PoolSize == 2        \* connections of the pool

Procs == 1..NProcs
Emails == {"a@v.an", "b@v.an"}
Names == {"ivan"}
Passwords == {"hashed"}
IntervalFirsts == {1}
IntervalFactors == {2}

\* registration_token_lifetime of the registration handler's configuration
RegistrationTokenLifetime == 1

\* UserRole.user
UserRole_user == "user"

\* UserRole.admin
UserRole_admin == "admin"

VARIABLES
    \* DBService fields
    max_newcomers_with_same_email,
    n_transaction_retries,
    transaction_retry_interval_first,
    transaction_retry_interval_factor,
    pool_in_use,          \* connections checked out of self.pool
    \* the store: committed rows
    newcomers,
    registration_tokens,
    users,                \* in the order of insertion
    \* utc_now()
    now,
    \* request tasks
    pc,                   \* position of each task
    req,                  \* the request a task serves
    attempt,              \* loop variable of execute_serializable_transaction
    interval,             \* its local interval
    pending,              \* the open transaction's buffered insert
    conflict,             \* what the store knows against the open transaction
    result,               \* its local result
    outcome,              \* how the task's last request ended
    \* observation of one call of execute_serializable_transaction
    runs,                 \* times func(conn) was invoked
    commits,              \* transactions committed
    sleeps,               \* asyncio.sleep durations, in order
    \* the world around
    mails,                \* verification mails sent: user_id -> how many
    calls,                \* requests started
    concurrent            \* a request has started while another was being served

cfgvars == <<max_newcomers_with_same_email, n_transaction_retries,
             transaction_retry_interval_first, transaction_retry_interval_factor>>
tables == <<newcomers, registration_tokens, users>>
execvars == <<attempt, interval, pending, conflict, result, runs, commits, sleeps>>
vars == <<cfgvars, pool_in_use, tables, now, pc, req, execvars, outcome, mails,
          calls, concurrent>>

NoRow == [user_id |-> 0]
NoReq == [op |-> "none", name |-> "", email |-> "", password |-> "", token |-> 0]
NoWrite == [table |-> "none", email |-> "", row |-> NoRow]

\* ------------------------------------------------------------- repositories

\* _count_users_by_email comparing the wrong column
CountUsersByName(email) ==
    Cardinality({i \in DOMAIN users : users[i].name = email})

\* SELECT count(*) FROM users WHERE email = $1
_count_users_by_email(email) ==
    Cardinality({i \in DOMAIN users : users[i].email = email})

\* SELECT count(*) FROM newcomers WHERE email = $1
_count_newcomers_by_email(email) ==
    Cardinality({n \in newcomers : n.email = email})

\* uuid4(): an identifier no row and no open transaction holds
uuid4 ==
    LET used == {n.user_id : n \in newcomers}
                \cup {pending[q].row.user_id : q \in Procs}
    IN  CHOOSE i \in 1..(Cardinality(used) + 1) : i \notin used

\* INSERT INTO newcomers (user_id, name, email, password, created_at)
_insert_newcomer(newcomer) ==
    [user_id |-> uuid4, name |-> newcomer.name, email |-> newcomer.email,
     password |-> newcomer.password, created_at |-> now]

\* _get_newcomer_by_token with expired_at >= now
GetNewcomerByTokenInclusive(token) ==
    {n \in newcomers :
        \E rt \in registration_tokens :
            /\ n.user_id = rt.user_id
            /\ rt.token = token
            /\ rt.expired_at >= now}

\* The rows of newcomers JOIN registration_tokens with the token, unexpired
_get_newcomer_by_token(token) ==
    {n \in newcomers :
        \E rt \in registration_tokens :
            /\ n.user_id = rt.user_id
            /\ rt.token = token
            /\ rt.expired_at > now}

\* _create_newcomer refusing only above the cap (> for >=)
CreateNewcomerOffByOne(newcomer) ==
    IF _count_users_by_email(newcomer.email) > 0
    THEN [error |-> "UserAlreadyExists", write |-> NoWrite]
    ELSE IF _count_newcomers_by_email(newcomer.email) > max_newcomers_with_same_email
    THEN [error |-> "TooManyNewcomersWithSameEmail", write |-> NoWrite]
    ELSE [error |-> "none",
          write |-> [table |-> "newcomers", email |-> newcomer.email,
                     row |-> _insert_newcomer(newcomer)]]

\* _create_newcomer checking the cap before the verified account
CreateNewcomerCapFirst(newcomer) ==
    IF _count_newcomers_by_email(newcomer.email) >= max_newcomers_with_same_email
    THEN [error |-> "TooManyNewcomersWithSameEmail", write |-> NoWrite]
    ELSE IF _count_users_by_email(newcomer.email) > 0
    THEN [error |-> "UserAlreadyExists", write |-> NoWrite]
    ELSE [error |-> "none",
          write |-> [table |-> "newcomers", email |-> newcomer.email,
                     row |-> _insert_newcomer(newcomer)]]

\* The unit of work of create_newcomer: the error it raises or the row it inserts
_create_newcomer(newcomer) ==
    IF _count_users_by_email(newcomer.email) > 0
    THEN [error |-> "UserAlreadyExists", write |-> NoWrite]
    ELSE IF _count_newcomers_by_email(newcomer.email) >= max_newcomers_with_same_email
    THEN [error |-> "TooManyNewcomersWithSameEmail", write |-> NoWrite]
    ELSE [error |-> "none",
          write |-> [table |-> "newcomers", email |-> newcomer.email,
                     row |-> _insert_newcomer(newcomer)]]

\* INSERT INTO users (...) VALUES ($1, $2, $3, $4, $5, $5, $5::VARCHAR)
InsertUser(newcomer) ==
    [user_id |-> newcomer.user_id, name |-> newcomer.name,
     email |-> newcomer.email, password |-> newcomer.password,
     created_at |-> newcomer.created_at,
     verified_at |-> newcomer.created_at,
     role |-> ToString(newcomer.created_at)]

\* _verify_newcomer without its re-check of the users table
VerifyNoRecheck(token) ==
    LET found == _get_newcomer_by_token(token) IN
    IF found = {}
    THEN [error |-> "TokenNotFound", write |-> NoWrite]
    ELSE LET newcomer == CHOOSE n \in found : TRUE IN
         [error |-> "none",
          write |-> [table |-> "users", email |-> newcomer.email,
                     row |-> InsertUser(newcomer)]]

\* The unit of work of verify_newcomer
_verify_newcomer(token) ==
    LET found == _get_newcomer_by_token(token) IN
    IF found = {}
    THEN [error |-> "TokenNotFound", write |-> NoWrite]
    ELSE LET newcomer == CHOOSE n \in found : TRUE IN
         IF _count_users_by_email(newcomer.email) > 0
         THEN [error |-> "UserAlreadyExists", write |-> NoWrite]
         ELSE [error |-> "none",
               write |-> [table |-> "users", email |-> newcomer.email,
                          row |-> InsertUser(newcomer)]]

\* func(conn): the partial built by create_newcomer / verify_newcomer
func(p) ==
    IF req[p].op = "create_newcomer"
    THEN _create_newcomer([name |-> req[p].name, email |-> req[p].email,
                           password |-> req[p].password])
    ELSE _verify_newcomer(req[p].token)

\* ------------------------------------------------------------- the store

\* A store that detects no conflict (an isolation level below serializable)
NoConflictDetection(p, q) == conflict[q]

\* What the commit of p's insert means for the transaction q holds open:
\* two transactions of the same operation on one email each read what the
\* other inserts (a cycle); different operations on one email depend one way.
ConflictAfter(p, q) ==
    IF q = p \/ pc[q] # "commit" \/ pending[q].email # pending[p].email
    THEN conflict[q]
    ELSE IF pending[q].table = pending[p].table
    THEN "must"
    ELSE IF conflict[q] = "must" THEN "must" ELSE "may"

\* A commit that writes the account at registration: the row of either
\* operation goes into users
CommittedIntoUsers(p) ==
    /\ newcomers' = IF pending[p].table = "newcomers"
                    THEN newcomers \cup {pending[p].row} ELSE newcomers
    /\ users' = Append(users, pending[p].row)
    /\ UNCHANGED registration_tokens

\* The committed tables after p's insert
Committed(p) ==
    /\ newcomers' = IF pending[p].table = "newcomers"
                    THEN newcomers \cup {pending[p].row} ELSE newcomers
    /\ users' = IF pending[p].table = "users"
                THEN Append(users, pending[p].row) ELSE users
    /\ UNCHANGED registration_tokens

\* RETURNING user_id, name, email, created_at [, verified_at, role]
Returning(w) ==
    IF w.table = "newcomers"
    THEN [user_id |-> w.row.user_id, name |-> w.row.name,
          email |-> w.row.email, created_at |-> w.row.created_at]
    ELSE [user_id |-> w.row.user_id, name |-> w.row.name,
          email |-> w.row.email, created_at |-> w.row.created_at,
          verified_at |-> w.row.verified_at, role |-> w.row.role]

\* ------------------------------------------------------------- requests

\* DBService.create_newcomer(newcomer), called by POST /auth/register with a
\* valid body; the lowest idle task takes the request
Register(p) ==
    /\ pc[p] = "idle"
    /\ \A q \in Procs : q < p => pc[q] # "idle"
    /\ calls < MaxCalls
    /\ calls' = calls + 1
    /\ concurrent' = (concurrent \/ p > 1)
    /\ \E name \in Names, email \in Emails, password \in Passwords :
           req' = [req EXCEPT ![p] = [op |-> "create_newcomer", name |-> name,
                                      email |-> email, password |-> password,
                                      token |-> 0]]
    /\ pc' = [pc EXCEPT ![p] = "acquire"]
    /\ outcome' = [outcome EXCEPT ![p] = "running"]
    /\ UNCHANGED <<cfgvars, pool_in_use, tables, now, execvars, mails>>

\* POST /auth/register with a body the handler's validation refuses (422)
RegisterInvalid(p) ==
    /\ pc[p] = "idle"
    /\ \A q \in Procs : q < p => pc[q] # "idle"
    /\ calls < MaxCalls
    /\ calls' = calls + 1
    /\ concurrent' = (concurrent \/ p > 1)
    /\ req' = [req EXCEPT ![p] = [NoReq EXCEPT !.op = "register_invalid"]]
    /\ outcome' = [outcome EXCEPT ![p] = "ValidationError"]
    /\ pc' = [pc EXCEPT ![p] = "done"]
    /\ UNCHANGED <<cfgvars, pool_in_use, tables, now, execvars, mails>>

\* DBService.verify_newcomer(token), the token issued or not
Verify(p) ==
    /\ pc[p] = "idle"
    /\ \A q \in Procs : q < p => pc[q] # "idle"
    /\ calls < MaxCalls
    /\ calls' = calls + 1
    /\ concurrent' = (concurrent \/ p > 1)
    /\ \E token \in 1..(MaxCap + 1) :
           req' = [req EXCEPT ![p] = [op |-> "verify_newcomer", name |-> "",
                                      email |-> "", password |-> "",
                                      token |-> token]]
    /\ pc' = [pc EXCEPT ![p] = "acquire"]
    /\ outcome' = [outcome EXCEPT ![p] = "running"]
    /\ UNCHANGED <<cfgvars, pool_in_use, tables, now, execvars, mails>>

\* ------------------------------------------------------------- executor

\* A call that raises keeping its connection (no async with around the loop)
LeaveNoRelease(p, how, next) ==
    /\ UNCHANGED pool_in_use
    /\ outcome' = [outcome EXCEPT ![p] = how]
    /\ pc' = [pc EXCEPT ![p] = next]
    /\ pending' = [pending EXCEPT ![p] = NoWrite]
    /\ conflict' = [conflict EXCEPT ![p] = "none"]

\* How a call of execute_serializable_transaction ends: the connection goes
\* back to the pool and the task has its outcome
Leave(p, how, next) ==
    /\ pool_in_use' = pool_in_use - 1
    /\ outcome' = [outcome EXCEPT ![p] = how]
    /\ pc' = [pc EXCEPT ![p] = next]
    /\ pending' = [pending EXCEPT ![p] = NoWrite]
    /\ conflict' = [conflict EXCEPT ![p] = "none"]

\* The executor with result = None bound before the loop: with no attempt
\* to make, the call returns None to its caller
ExecAcquireResultNone(p) ==
    /\ pc[p] = "acquire"
    /\ pool_in_use < PoolSize
    /\ interval' = [interval EXCEPT ![p] = transaction_retry_interval_first]
    /\ IF n_transaction_retries <= 0
       THEN /\ IF req[p].op = "create_newcomer"
               THEN /\ pc' = [pc EXCEPT ![p] = "save_token"]
                    /\ UNCHANGED outcome
               ELSE /\ pc' = [pc EXCEPT ![p] = "done"]
                    /\ outcome' = [outcome EXCEPT ![p] = "verified"]
            /\ UNCHANGED <<pool_in_use, attempt>>
       ELSE /\ pool_in_use' = pool_in_use + 1
            /\ attempt' = [attempt EXCEPT ![p] = 0]
            /\ pc' = [pc EXCEPT ![p] = "attempt"]
            /\ UNCHANGED outcome
    /\ UNCHANGED <<cfgvars, tables, now, req, pending, conflict, result,
                   runs, commits, sleeps, mails, calls, concurrent>>

\* interval = ...first; async with self.pool.acquire(); for attempt in range(n)
ExecAcquire(p) ==
    /\ pc[p] = "acquire"
    /\ pool_in_use < PoolSize
    /\ interval' = [interval EXCEPT ![p] = transaction_retry_interval_first]
    /\ IF n_transaction_retries <= 0
       THEN \* the loop body never runs; "return result" finds result unbound
            /\ outcome' = [outcome EXCEPT ![p] = "UnboundLocalError"]
            /\ pc' = [pc EXCEPT ![p] = "done"]
            /\ UNCHANGED <<pool_in_use, attempt>>
       ELSE /\ pool_in_use' = pool_in_use + 1
            /\ attempt' = [attempt EXCEPT ![p] = 0]
            /\ pc' = [pc EXCEPT ![p] = "attempt"]
            /\ UNCHANGED outcome
    /\ UNCHANGED <<cfgvars, tables, now, req, pending, conflict, result,
                   runs, commits, sleeps, mails, calls, concurrent>>

\* The attempt with "except Exception" for "except SerializationError": a
\* domain error is slept on and retried like a conflict
ExecAttemptRetryAll(p) ==
    /\ pc[p] = "attempt"
    /\ runs' = [runs EXCEPT ![p] = @ + 1]
    /\ LET r == func(p) IN
       IF r.error # "none"
       THEN IF attempt[p] = n_transaction_retries - 1
            THEN /\ Leave(p, r.error, "done")
                 /\ UNCHANGED <<attempt, interval, sleeps, result>>
            ELSE /\ sleeps' = [sleeps EXCEPT ![p] = Append(@, interval[p])]
                 /\ interval' = [interval EXCEPT
                                    ![p] = @ * transaction_retry_interval_factor]
                 /\ attempt' = [attempt EXCEPT ![p] = @ + 1]
                 /\ UNCHANGED <<pool_in_use, outcome, pc, pending, conflict, result>>
       ELSE /\ pending' = [pending EXCEPT ![p] = r.write]
            /\ result' = [result EXCEPT ![p] = Returning(r.write)]
            /\ conflict' = [conflict EXCEPT ![p] = "none"]
            /\ pc' = [pc EXCEPT ![p] = "commit"]
            /\ UNCHANGED <<pool_in_use, outcome, attempt, interval, sleeps>>
    /\ UNCHANGED <<cfgvars, tables, now, req, commits, mails, calls, concurrent>>

\* The attempt binding result only while it is unbound: a call that succeeds
\* on a retry returns what its first, refused attempt produced
ExecAttemptKeepFirstResult(p) ==
    /\ pc[p] = "attempt"
    /\ runs' = [runs EXCEPT ![p] = @ + 1]
    /\ LET r == func(p) IN
       IF r.error # "none"
       THEN /\ Leave(p, r.error, "done")
            /\ UNCHANGED result
       ELSE /\ pending' = [pending EXCEPT ![p] = r.write]
            /\ result' = [result EXCEPT
                              ![p] = IF @ = NoRow THEN Returning(r.write) ELSE @]
            /\ conflict' = [conflict EXCEPT ![p] = "none"]
            /\ pc' = [pc EXCEPT ![p] = "commit"]
            /\ UNCHANGED <<pool_in_use, outcome>>
    /\ UNCHANGED <<cfgvars, tables, now, req, attempt, interval,
                   commits, sleeps, mails, calls, concurrent>>

\* async with conn.transaction(isolation="serializable"): result = await func(conn)
\* up to the commit (result is bound before the block is left); a domain
\* error rolls back and leaves the call
ExecAttempt(p) ==
    /\ pc[p] = "attempt"
    /\ runs' = [runs EXCEPT ![p] = @ + 1]
    /\ LET r == func(p) IN
       IF r.error # "none"
       THEN /\ Leave(p, r.error, "done")
            /\ UNCHANGED result
       ELSE /\ pending' = [pending EXCEPT ![p] = r.write]
            /\ result' = [result EXCEPT ![p] = Returning(r.write)]
            /\ conflict' = [conflict EXCEPT ![p] = "none"]
            /\ pc' = [pc EXCEPT ![p] = "commit"]
            /\ UNCHANGED <<pool_in_use, outcome>>
    /\ UNCHANGED <<cfgvars, tables, now, req, attempt, interval,
                   commits, sleeps, mails, calls, concurrent>>

\* The transaction commits: else: break; return result
ExecCommit(p) ==
    /\ pc[p] = "commit"
    /\ conflict[p] # "must"
    /\ Committed(p)
    /\ commits' = [commits EXCEPT ![p] = @ + 1]
    /\ pool_in_use' = pool_in_use - 1
    /\ pending' = [pending EXCEPT ![p] = NoWrite]
    /\ conflict' = [q \in Procs |-> IF q = p THEN "none" ELSE ConflictAfter(p, q)]
    /\ IF req[p].op = "create_newcomer"
       THEN /\ pc' = [pc EXCEPT ![p] = "save_token"]
            /\ UNCHANGED outcome
       ELSE /\ pc' = [pc EXCEPT ![p] = "done"]
            /\ outcome' = [outcome EXCEPT ![p] = "verified"]
    /\ UNCHANGED <<cfgvars, now, req, attempt, interval, result, runs, sleeps,
                   mails, calls, concurrent>>

\* except SerializationError: raise, whatever attempts remain
ExecSerializationErrorNoRetry(p) ==
    /\ pc[p] = "commit"
    /\ conflict[p] # "none"
    /\ Leave(p, "SerializationError", "done")
    /\ UNCHANGED <<cfgvars, tables, now, req, attempt, interval, result, runs,
                   commits, sleeps, mails, calls, concurrent>>

\* The conflict raised after the attempt's insert was committed: the insert
\* of a refused attempt stays
ExecSerializationErrorAfterCommit(p) ==
    /\ pc[p] = "commit"
    /\ conflict[p] # "none"
    /\ Committed(p)
    /\ IF attempt[p] = n_transaction_retries - 1
       THEN /\ Leave(p, "SerializationError", "done")
            /\ UNCHANGED <<attempt, interval, sleeps>>
       ELSE /\ sleeps' = [sleeps EXCEPT ![p] = Append(@, interval[p])]
            /\ interval' = [interval EXCEPT
                               ![p] = @ * transaction_retry_interval_factor]
            /\ attempt' = [attempt EXCEPT ![p] = @ + 1]
            /\ pending' = [pending EXCEPT ![p] = NoWrite]
            /\ conflict' = [conflict EXCEPT ![p] = "none"]
            /\ pc' = [pc EXCEPT ![p] = "attempt"]
            /\ UNCHANGED <<pool_in_use, outcome>>
    /\ UNCHANGED <<cfgvars, now, req, result, runs, commits, mails, calls, concurrent>>

\* except SerializationError giving up one attempt early
\* (attempt == n_transaction_retries - 2)
ExecSerializationErrorEarly(p) ==
    /\ pc[p] = "commit"
    /\ conflict[p] # "none"
    /\ IF attempt[p] = n_transaction_retries - 2
       THEN /\ Leave(p, "SerializationError", "done")
            /\ UNCHANGED <<attempt, interval, sleeps>>
       ELSE /\ sleeps' = [sleeps EXCEPT ![p] = Append(@, interval[p])]
            /\ interval' = [interval EXCEPT
                               ![p] = @ * transaction_retry_interval_factor]
            /\ attempt' = [attempt EXCEPT ![p] = @ + 1]
            /\ pending' = [pending EXCEPT ![p] = NoWrite]
            /\ conflict' = [conflict EXCEPT ![p] = "none"]
            /\ pc' = [pc EXCEPT ![p] = "attempt"]
            /\ UNCHANGED <<pool_in_use, outcome>>
    /\ UNCHANGED <<cfgvars, tables, now, req, result, runs, commits,
                   mails, calls, concurrent>>

\* except SerializationError with interval += factor for interval *= factor
ExecSerializationErrorLinear(p) ==
    /\ pc[p] = "commit"
    /\ conflict[p] # "none"
    /\ IF attempt[p] = n_transaction_retries - 1
       THEN /\ Leave(p, "SerializationError", "done")
            /\ UNCHANGED <<attempt, interval, sleeps>>
       ELSE /\ sleeps' = [sleeps EXCEPT ![p] = Append(@, interval[p])]
            /\ interval' = [interval EXCEPT
                               ![p] = @ + transaction_retry_interval_factor]
            /\ attempt' = [attempt EXCEPT ![p] = @ + 1]
            /\ pending' = [pending EXCEPT ![p] = NoWrite]
            /\ conflict' = [conflict EXCEPT ![p] = "none"]
            /\ pc' = [pc EXCEPT ![p] = "attempt"]
            /\ UNCHANGED <<pool_in_use, outcome>>
    /\ UNCHANGED <<cfgvars, tables, now, req, result, runs, commits,
                   mails, calls, concurrent>>

\* except SerializationError retrying the commit of the insert the refused
\* attempt had prepared, without running func again
ExecSerializationErrorKeepWrite(p) ==
    /\ pc[p] = "commit"
    /\ conflict[p] # "none"
    /\ IF attempt[p] = n_transaction_retries - 1
       THEN /\ Leave(p, "SerializationError", "done")
            /\ UNCHANGED <<attempt, interval, sleeps>>
       ELSE /\ sleeps' = [sleeps EXCEPT ![p] = Append(@, interval[p])]
            /\ interval' = [interval EXCEPT
                               ![p] = @ * transaction_retry_interval_factor]
            /\ attempt' = [attempt EXCEPT ![p] = @ + 1]
            /\ conflict' = [conflict EXCEPT ![p] = "none"]
            /\ UNCHANGED <<pool_in_use, outcome, pending, pc>>
    /\ UNCHANGED <<cfgvars, tables, now, req, result, runs, commits,
                   mails, calls, concurrent>>

\* except SerializationError: raise on the last attempt, else sleep and retry
ExecSerializationError(p) ==
    /\ pc[p] = "commit"
    /\ conflict[p] # "none"
    /\ IF attempt[p] = n_transaction_retries - 1
       THEN /\ Leave(p, "SerializationError", "done")
            /\ UNCHANGED <<attempt, interval, sleeps>>
       ELSE /\ sleeps' = [sleeps EXCEPT ![p] = Append(@, interval[p])]
            /\ interval' = [interval EXCEPT
                               ![p] = @ * transaction_retry_interval_factor]
            /\ attempt' = [attempt EXCEPT ![p] = @ + 1]
            /\ pending' = [pending EXCEPT ![p] = NoWrite]
            /\ conflict' = [conflict EXCEPT ![p] = "none"]
            /\ pc' = [pc EXCEPT ![p] = "attempt"]
            /\ UNCHANGED <<pool_in_use, outcome>>
    /\ UNCHANGED <<cfgvars, tables, now, req, result, runs, commits,
                   mails, calls, concurrent>>

\* ------------------------------------------------------------- registration

\* INSERT INTO registration_tokens (token, user_id, created_at, expired_at),
\* by self.pool.execute: a statement of its own, outside any transaction
save_registration_token(token) ==
    registration_tokens' = registration_tokens \cup {token}

\* The handler, after create_newcomer returned: a fresh token for the newcomer
RegisterSaveToken(p) ==
    /\ pc[p] = "save_token"
    /\ save_registration_token(
           [token |-> Cardinality(registration_tokens) + 1,
            user_id |-> result[p].user_id,
            created_at |-> now,
            expired_at |-> now + RegistrationTokenLifetime])
    /\ pc' = [pc EXCEPT ![p] = "send_mail"]
    /\ UNCHANGED <<cfgvars, pool_in_use, newcomers, users, now, req, execvars,
                   outcome, mails, calls, concurrent>>

\* The mails sent to the signup
Sent(user_id) == IF user_id \in DOMAIN mails THEN mails[user_id] ELSE 0

\* The handler sends the verification mail and answers 201
RegisterSendMail(p) ==
    /\ pc[p] = "send_mail"
    /\ mails' = [i \in DOMAIN mails \cup {result[p].user_id} |->
                    IF i = result[p].user_id THEN Sent(i) + 1 ELSE Sent(i)]
    /\ pc' = [pc EXCEPT ![p] = "done"]
    /\ outcome' = [outcome EXCEPT ![p] = "created"]
    /\ UNCHANGED <<cfgvars, pool_in_use, tables, now, req, execvars, calls, concurrent>>

\* ------------------------------------------------------------- user read

\* get_user refusing with 403 where the caller is not an admin and the
\* target exists, after looking the target up
GetUserLookupFirst(p) ==
    /\ pc[p] = "idle"
    /\ \A q \in Procs : q < p => pc[q] # "idle"
    /\ calls < MaxCalls
    /\ calls' = calls + 1
    /\ concurrent' = (concurrent \/ p > 1)
    /\ \E user_id \in 1..(MaxCap + 1), role \in {UserRole_user, UserRole_admin} :
           /\ req' = [req EXCEPT ![p] = [op |-> "get_user", name |-> "",
                                          email |-> "", password |-> "",
                                          token |-> 0, user_id |-> user_id,
                                          role |-> role]]
           /\ IF role # UserRole_admin
                 /\ \E i \in DOMAIN users : users[i].user_id = user_id
              THEN /\ outcome' = [outcome EXCEPT ![p] = "Forbidden"]
                   /\ pc' = [pc EXCEPT ![p] = "done"]
              ELSE IF role # UserRole_admin
              THEN /\ outcome' = [outcome EXCEPT ![p] = "NotFound"]
                   /\ pc' = [pc EXCEPT ![p] = "done"]
              ELSE /\ outcome' = [outcome EXCEPT ![p] = "running"]
                   /\ pc' = [pc EXCEPT ![p] = "get_user"]
    /\ UNCHANGED <<cfgvars, pool_in_use, tables, now, execvars, mails>>

\* GET /auth/users/{user_id} by an authenticated caller of either role:
\* if user.role != UserRole.admin: raise NotFoundException()
GetUser(p) ==
    /\ pc[p] = "idle"
    /\ \A q \in Procs : q < p => pc[q] # "idle"
    /\ calls < MaxCalls
    /\ calls' = calls + 1
    /\ concurrent' = (concurrent \/ p > 1)
    /\ \E user_id \in 1..(MaxCap + 1), role \in {UserRole_user, UserRole_admin} :
           /\ req' = [req EXCEPT ![p] = [op |-> "get_user", name |-> "",
                                          email |-> "", password |-> "",
                                          token |-> 0, user_id |-> user_id,
                                          role |-> role]]
           /\ IF role # UserRole_admin
              THEN /\ outcome' = [outcome EXCEPT ![p] = "NotFound"]
                   /\ pc' = [pc EXCEPT ![p] = "done"]
              ELSE /\ outcome' = [outcome EXCEPT ![p] = "running"]
                   /\ pc' = [pc EXCEPT ![p] = "get_user"]
    /\ UNCHANGED <<cfgvars, pool_in_use, tables, now, execvars, mails>>

\* user = await db_service.get_user(user_id); except UserNotExists: raise
\* NotFoundException(); return user
GetUserFromStore(p) ==
    /\ pc[p] = "get_user"
    /\ LET found == {i \in DOMAIN users : users[i].user_id = req[p].user_id} IN
       IF found = {}
       THEN /\ outcome' = [outcome EXCEPT ![p] = "NotFound"]
            /\ UNCHANGED result
       ELSE /\ outcome' = [outcome EXCEPT ![p] = "user"]
            /\ result' = [result EXCEPT
                              ![p] = Returning([table |-> "users",
                                                row |-> users[CHOOSE i \in found : TRUE]])]
    /\ pc' = [pc EXCEPT ![p] = "done"]
    /\ UNCHANGED <<cfgvars, pool_in_use, tables, now, req, attempt, interval,
                   pending, conflict, runs, commits, sleeps, mails, calls,
                   concurrent>>

\* The task hands back the outcome of its request and is free again
Respond(p) ==
    /\ pc[p] = "done"
    /\ pc' = [pc EXCEPT ![p] = "idle"]
    /\ req' = [req EXCEPT ![p] = NoReq]
    /\ outcome' = [outcome EXCEPT ![p] = "none"]
    /\ result' = [result EXCEPT ![p] = NoRow]
    /\ attempt' = [attempt EXCEPT ![p] = 0]
    /\ interval' = [interval EXCEPT ![p] = 0]
    /\ runs' = [runs EXCEPT ![p] = 0]
    /\ commits' = [commits EXCEPT ![p] = 0]
    /\ sleeps' = [sleeps EXCEPT ![p] = <<>>]
    /\ UNCHANGED <<cfgvars, pool_in_use, tables, now, pending, conflict,
                   mails, calls, concurrent>>

\* utc_now() advances
Tick ==
    /\ now < MaxTime
    /\ now' = now + 1
    /\ UNCHANGED <<cfgvars, pool_in_use, tables, pc, req, execvars, outcome,
                   mails, calls, concurrent>>

\* ------------------------------------------------------------- specification

\* An empty store and a service configured to attempt its transactions
\* (n_transaction_retries >= 1) and to admit signups (cap >= 1)
Init ==
    /\ max_newcomers_with_same_email \in 1..MaxCap
    /\ n_transaction_retries \in 1..MaxRetries
    /\ transaction_retry_interval_first \in IntervalFirsts
    /\ transaction_retry_interval_factor \in IntervalFactors
    /\ pool_in_use = 0
    /\ newcomers = {}
    /\ registration_tokens = {}
    /\ users = <<>>
    /\ now = 0
    /\ pc = [p \in Procs |-> "idle"]
    /\ req = [p \in Procs |-> NoReq]
    /\ attempt = [p \in Procs |-> 0]
    /\ interval = [p \in Procs |-> 0]
    /\ pending = [p \in Procs |-> NoWrite]
    /\ conflict = [p \in Procs |-> "none"]
    /\ result = [p \in Procs |-> NoRow]
    /\ outcome = [p \in Procs |-> "none"]
    /\ runs = [p \in Procs |-> 0]
    /\ commits = [p \in Procs |-> 0]
    /\ sleeps = [p \in Procs |-> <<>>]
    /\ mails = <<>>
    /\ calls = 0
    /\ concurrent = FALSE

Next ==
    \/ \E p \in Procs : Register(p)
    \/ \E p \in Procs : RegisterInvalid(p)
    \/ \E p \in Procs : Verify(p)
    \/ \E p \in Procs : ExecAcquire(p)
    \/ \E p \in Procs : ExecAttempt(p)
    \/ \E p \in Procs : ExecCommit(p)
    \/ \E p \in Procs : ExecSerializationError(p)
    \/ \E p \in Procs : RegisterSaveToken(p)
    \/ \E p \in Procs : RegisterSendMail(p)
    \/ \E p \in Procs : Respond(p)
    \/ Tick

Spec == Init /\ [][Next]_vars

\* The verification race: MaxCap signups of one email are pending, each with
\* its token, none verified, and from then on only verifications arrive
InitVerifyRace ==
    /\ max_newcomers_with_same_email = MaxCap
    /\ n_transaction_retries \in 1..MaxRetries
    /\ transaction_retry_interval_first \in IntervalFirsts
    /\ transaction_retry_interval_factor \in IntervalFactors
    /\ pool_in_use = 0
    /\ newcomers = {[user_id |-> i, name |-> "ivan", email |-> "a@v.an",
                     password |-> "hashed", created_at |-> 0] : i \in 1..MaxCap}
    /\ registration_tokens =
           {[token |-> i, user_id |-> i, created_at |-> 0,
             expired_at |-> RegistrationTokenLifetime] : i \in 1..MaxCap}
    /\ users = <<>>
    /\ now = 0
    /\ pc = [p \in Procs |-> "idle"]
    /\ req = [p \in Procs |-> NoReq]
    /\ attempt = [p \in Procs |-> 0]
    /\ interval = [p \in Procs |-> 0]
    /\ pending = [p \in Procs |-> NoWrite]
    /\ conflict = [p \in Procs |-> "none"]
    /\ result = [p \in Procs |-> NoRow]
    /\ outcome = [p \in Procs |-> "none"]
    /\ runs = [p \in Procs |-> 0]
    /\ commits = [p \in Procs |-> 0]
    /\ sleeps = [p \in Procs |-> <<>>]
    /\ mails = [i \in 1..MaxCap |-> 1]
    /\ calls = 0
    /\ concurrent = FALSE

NextVerifyRace ==
    \/ \E p \in Procs : Verify(p)
    \/ \E p \in Procs : ExecAcquire(p)
    \/ \E p \in Procs : ExecAttempt(p)
    \/ \E p \in Procs : ExecCommit(p)
    \/ \E p \in Procs : ExecSerializationError(p)
    \/ \E p \in Procs : Respond(p)
    \/ Tick

SpecVerifyRace == InitVerifyRace /\ [][NextVerifyRace]_vars

\* Reads of accounts by callers of either role while the pending signups of
\* InitVerifyRace are being verified: the target of a read may or may not
\* have its account yet
NextGetUser ==
    \/ \E p \in Procs : Verify(p)
    \/ \E p \in Procs : GetUser(p)
    \/ \E p \in Procs : GetUserFromStore(p)
    \/ \E p \in Procs : ExecAcquire(p)
    \/ \E p \in Procs : ExecAttempt(p)
    \/ \E p \in Procs : ExecCommit(p)
    \/ \E p \in Procs : ExecSerializationError(p)
    \/ \E p \in Procs : Respond(p)

SpecGetUser == InitVerifyRace /\ [][NextGetUser]_vars

\* The retry scenario: registrations only, under a cap high enough for a call
\* to be refused at commit in every one of its attempts, and a service of
\* any backoff and 1..MaxRetries + 1 attempts
BackoffFirsts == {1, 3}
BackoffFactors == {2, 3}

InitBackoff ==
    /\ max_newcomers_with_same_email = MaxCap + 1
    /\ n_transaction_retries \in 1..(MaxRetries + 1)
    /\ transaction_retry_interval_first \in BackoffFirsts
    /\ transaction_retry_interval_factor \in BackoffFactors
    /\ pool_in_use = 0
    /\ newcomers = {}
    /\ registration_tokens = {}
    /\ users = <<>>
    /\ now = 0
    /\ pc = [p \in Procs |-> "idle"]
    /\ req = [p \in Procs |-> NoReq]
    /\ attempt = [p \in Procs |-> 0]
    /\ interval = [p \in Procs |-> 0]
    /\ pending = [p \in Procs |-> NoWrite]
    /\ conflict = [p \in Procs |-> "none"]
    /\ result = [p \in Procs |-> NoRow]
    /\ outcome = [p \in Procs |-> "none"]
    /\ runs = [p \in Procs |-> 0]
    /\ commits = [p \in Procs |-> 0]
    /\ sleeps = [p \in Procs |-> <<>>]
    /\ mails = <<>>
    /\ calls = 0
    /\ concurrent = FALSE

NextBackoff ==
    \/ \E p \in Procs : Register(p)
    \/ \E p \in Procs : ExecAcquire(p)
    \/ \E p \in Procs : ExecAttempt(p)
    \/ \E p \in Procs : ExecCommit(p)
    \/ \E p \in Procs : ExecSerializationError(p)
    \/ \E p \in Procs : RegisterSaveToken(p)
    \/ \E p \in Procs : RegisterSendMail(p)
    \/ \E p \in Procs : Respond(p)

SpecBackoff == InitBackoff /\ [][NextBackoff]_vars

\* Registrations against a service of any n_transaction_retries, zero and
\* negative included
InitAnyRetries ==
    /\ max_newcomers_with_same_email \in 1..MaxCap
    /\ n_transaction_retries \in -1..MaxRetries
    /\ transaction_retry_interval_first \in IntervalFirsts
    /\ transaction_retry_interval_factor \in IntervalFactors
    /\ pool_in_use = 0
    /\ newcomers = {}
    /\ registration_tokens = {}
    /\ users = <<>>
    /\ now = 0
    /\ pc = [p \in Procs |-> "idle"]
    /\ req = [p \in Procs |-> NoReq]
    /\ attempt = [p \in Procs |-> 0]
    /\ interval = [p \in Procs |-> 0]
    /\ pending = [p \in Procs |-> NoWrite]
    /\ conflict = [p \in Procs |-> "none"]
    /\ result = [p \in Procs |-> NoRow]
    /\ outcome = [p \in Procs |-> "none"]
    /\ runs = [p \in Procs |-> 0]
    /\ commits = [p \in Procs |-> 0]
    /\ sleeps = [p \in Procs |-> <<>>]
    /\ mails = <<>>
    /\ calls = 0
    /\ concurrent = FALSE

SpecAnyRetries == InitAnyRetries /\ [][NextBackoff]_vars

\* ------------------------------------------------------------- observations

DomainErrors == {"UserAlreadyExists", "TooManyNewcomersWithSameEmail",
                 "TokenNotFound"}

\* The task has finished a request of the operation
Finished(p, op) == pc[p] = "done" /\ req[p].op = op

\* The requests so far were served one after another
Sequential == ~concurrent

\* The pending signups the token is bound to
TokenNewcomers(token) ==
    {n \in newcomers :
        \E rt \in registration_tokens :
            rt.token = token /\ rt.user_id = n.user_id}

\* The token is bound to a signup and has not expired
TokenLive(token) ==
    \E rt \in registration_tokens :
        /\ rt.token = token
        /\ rt.expired_at > now
        /\ \E n \in newcomers : n.user_id = rt.user_id

UsersWithEmail(email) == {i \in DOMAIN users : users[i].email = email}

NewcomersWithEmail(email) == {n \in newcomers : n.email = email}

\* ------------------------------------------------------------- claims

\* C1: in every reachable state no two rows of the users table have the
\* same email.
C1_UniqueVerifiedEmail ==
    \A i, j \in DOMAIN users : users[i].email = users[j].email => i = j

\* C1 witness: two signups of one email both hold a token, one was promoted
\* and a verification of the other was refused.
C1_Witness ==
    \E p \in Procs, n1, n2 \in newcomers :
        /\ n1 # n2 /\ n1.email = n2.email
        /\ UsersWithEmail(n1.email) # {}
        /\ Finished(p, "verify_newcomer")
        /\ outcome[p] = "UserAlreadyExists"
        /\ n2 \in TokenNewcomers(req[p].token)
        /\ \E i \in DOMAIN users : users[i].user_id = n1.user_id

\* C2 as stated: of concurrent verifications with live tokens of signups
\* sharing one email, exactly one commits a users row and every other ends
\* with UserAlreadyExists.
C2_OneWinnerOthersExist ==
    \A p \in Procs :
        Finished(p, "verify_newcomer") /\ TokenLive(req[p].token) =>
            /\ outcome[p] \in {"verified", "UserAlreadyExists"}
            /\ Len(users) = 1

\* C2 amended: the same, when a refused attempt has a retry left
\* (n_transaction_retries >= 2).
C2_OneWinnerOthersExistWithRetry ==
    n_transaction_retries >= 2 => C2_OneWinnerOthersExist

\* C2 witness: two verifications of different signups ran, one committed,
\* the other was refused at commit, retried and found the account.
C2_Witness ==
    \E p, q \in Procs :
        /\ n_transaction_retries >= 2
        /\ Finished(p, "verify_newcomer") /\ Finished(q, "verify_newcomer")
        /\ req[p].token # req[q].token
        /\ TokenLive(req[p].token) /\ TokenLive(req[q].token)
        /\ outcome[p] = "verified"
        /\ outcome[q] = "UserAlreadyExists"
        /\ runs[q] = 2 /\ Len(sleeps[q]) = 1

\* C3 as stated: in every state each newcomers row has a registration_tokens
\* row bound to its user_id, and each registration_tokens row a newcomers row.
C3_SignupAndTokenTogether ==
    /\ \A n \in newcomers :
          \E rt \in registration_tokens : rt.user_id = n.user_id
    /\ \A rt \in registration_tokens :
          \E n \in newcomers : n.user_id = rt.user_id

\* The tokens bound to the signups of the email
TokensOfEmail(email) ==
    {rt \in registration_tokens :
        \E n \in NewcomersWithEmail(email) : n.user_id = rt.user_id}

\* C4: registrations of one email arriving one after another, from no rows
\* and with no account of that email: each succeeds while fewer than max
\* signups are pending and the next fails with TooManyNewcomersWithSameEmail,
\* leaving exactly max newcomers rows and max registration_tokens rows.
C4_CapSequential ==
    Sequential =>
        \A e \in Emails :
            UsersWithEmail(e) = {} =>
                /\ Cardinality(NewcomersWithEmail(e)) <= max_newcomers_with_same_email
                /\ (Finished(1, "create_newcomer") /\ req[1].email = e) =>
                      /\ outcome[1] \in {"created", "TooManyNewcomersWithSameEmail"}
                      /\ outcome[1] = "TooManyNewcomersWithSameEmail" =>
                            /\ Cardinality(NewcomersWithEmail(e))
                                   = max_newcomers_with_same_email
                            /\ Cardinality(TokensOfEmail(e))
                                   = max_newcomers_with_same_email
                      /\ outcome[1] = "created" =>
                            Cardinality(TokensOfEmail(e))
                                = Cardinality(NewcomersWithEmail(e))

\* C4 witness: with max = MaxCap the registration after the max-th was
\* refused, and max rows of each table remain.
C4_Witness ==
    /\ Sequential
    /\ max_newcomers_with_same_email = MaxCap
    /\ Finished(1, "create_newcomer")
    /\ outcome[1] = "TooManyNewcomersWithSameEmail"
    /\ UsersWithEmail(req[1].email) = {}
    /\ Cardinality(NewcomersWithEmail(req[1].email)) = MaxCap
    /\ Cardinality(TokensOfEmail(req[1].email)) = MaxCap

\* C5: in every reachable state, whatever the interleaving of create_newcomer
\* calls, conflicts and retries, no email has more than
\* max_newcomers_with_same_email committed newcomers rows.
C5_PendingBounded ==
    \A e \in Emails :
        Cardinality(NewcomersWithEmail(e)) <= max_newcomers_with_same_email

\* C5 witness: a create_newcomer was refused at commit by a concurrent one of
\* the same email, ran again and found the cap reached.
C5_Witness ==
    \E p \in Procs :
        /\ Finished(p, "create_newcomer")
        /\ outcome[p] = "TooManyNewcomersWithSameEmail"
        /\ runs[p] = 2
        /\ Cardinality(NewcomersWithEmail(req[p].email))
               = max_newcomers_with_same_email

\* C6: an attempt of create_newcomer for an email that has a users row ends
\* the call with UserAlreadyExists, whatever the number of pending signups,
\* and leaves newcomers, registration_tokens and users unchanged.
C6_VerifiedEmailRefused ==
    [][\A p \in Procs :
          (/\ req[p].op = "create_newcomer"
           /\ runs'[p] = runs[p] + 1
           /\ UsersWithEmail(req[p].email) # {})
          => (/\ pc'[p] = "done"
              /\ outcome'[p] = "UserAlreadyExists"
              /\ tables' = tables)]_vars

\* C6 witness: a registration was refused with UserAlreadyExists while the
\* pending signups of its email were at the cap.
C6_Witness ==
    \E p \in Procs :
        /\ Finished(p, "create_newcomer")
        /\ outcome[p] = "UserAlreadyExists"
        /\ UsersWithEmail(req[p].email) # {}
        /\ Cardinality(NewcomersWithEmail(req[p].email))
               >= max_newcomers_with_same_email

UsersWithId(user_id) == {i \in DOMAIN users : users[i].user_id = user_id}

\* C7 as stated: verifications arriving one after another with an unexpired
\* token: the first commits the account of the token's signup and every
\* later one ends with UserAlreadyExists, so after any of them the signup
\* has exactly one users row.
C7_TokenVerifiesOnce ==
    Sequential =>
        \A n \in TokenNewcomers(req[1].token) :
            (Finished(1, "verify_newcomer") /\ TokenLive(req[1].token)) =>
                /\ outcome[1] \in {"verified", "UserAlreadyExists"}
                /\ Cardinality(UsersWithId(n.user_id)) = 1

\* C7 amended: the first verification commits when no account of the
\* signup's email exists; after any verification with an unexpired token the
\* email has exactly one users row, a call that ends verified committed once
\* and returned the signup's account, and a call that ends with
\* UserAlreadyExists committed nothing.
C7_EmailVerifiesOnce ==
    Sequential =>
        \A n \in TokenNewcomers(req[1].token) :
            (Finished(1, "verify_newcomer") /\ TokenLive(req[1].token)) =>
                /\ outcome[1] \in {"verified", "UserAlreadyExists"}
                /\ Cardinality(UsersWithEmail(n.email)) = 1
                /\ outcome[1] = "verified" =>
                      /\ commits[1] = 1
                      /\ result[1].user_id = n.user_id
                      /\ Cardinality(UsersWithId(n.user_id)) = 1
                /\ outcome[1] = "UserAlreadyExists" =>
                      /\ commits[1] = 0
                      /\ result[1] = NoRow

\* C7 witness: a second verification with the same unexpired token, after
\* the first had promoted its signup, was refused with UserAlreadyExists.
C7_Witness ==
    /\ Sequential
    /\ Finished(1, "verify_newcomer")
    /\ TokenLive(req[1].token)
    /\ outcome[1] = "UserAlreadyExists"
    /\ \E n \in TokenNewcomers(req[1].token) :
          /\ Cardinality(UsersWithId(n.user_id)) = 1
          /\ Len(users) = 1

\* C8: an attempt of verify_newcomer whose token matches no
\* registration_tokens row with expired_at > now ends the call with
\* TokenNotFound and leaves the three tables unchanged.
C8_DeadTokenNotFound ==
    [][\A p \in Procs :
          (/\ req[p].op = "verify_newcomer"
           /\ runs'[p] = runs[p] + 1
           /\ \A rt \in registration_tokens :
                 rt.token = req[p].token => rt.expired_at <= now)
          => (/\ pc'[p] = "done"
              /\ outcome'[p] = "TokenNotFound"
              /\ tables' = tables)]_vars

\* C8 witness: a verification was refused with TokenNotFound at the very
\* instant its token expired (expired_at = now).
C8_Witness ==
    \E p \in Procs, rt \in registration_tokens :
        /\ Finished(p, "verify_newcomer")
        /\ outcome[p] = "TokenNotFound"
        /\ rt.token = req[p].token
        /\ rt.expired_at = now

\* C8 witness of the other case: a token never issued.
C8_WitnessNeverIssued ==
    \E p \in Procs :
        /\ Finished(p, "verify_newcomer")
        /\ outcome[p] = "TokenNotFound"
        /\ registration_tokens # {}
        /\ \A rt \in registration_tokens : rt.token # req[p].token

\* The tasks whose registration has committed and not yet sent its mail
AwaitingMail == {p \in Procs : pc[p] \in {"save_token", "send_mail"}}

\* C9: every committed signup has had exactly one verification mail, or its
\* registration is between commit and send; no mail exists for anything but
\* a committed signup, so failed registrations and retried attempts send
\* nothing and sends equal successful registrations.
C9_OneMailPerRegistration ==
    /\ Cardinality(DOMAIN mails) + Cardinality(AwaitingMail)
          = Cardinality(newcomers)
    /\ \A i \in DOMAIN mails :
          /\ mails[i] = 1
          /\ \E n \in newcomers : n.user_id = i
    /\ \A p \in AwaitingMail :
          /\ \E n \in newcomers : n.user_id = result[p].user_id
          /\ Sent(result[p].user_id) = 0

\* C9 witness: one registration succeeded on its second attempt, another
\* failed with a domain error, one was refused by validation, and the mails
\* count the signups.
C9_Witness ==
    \E p, q \in Procs :
        /\ Finished(p, "create_newcomer") /\ outcome[p] = "created"
        /\ runs[p] = 2
        /\ Finished(q, "create_newcomer") /\ outcome[q] \in DomainErrors
        /\ Cardinality(DOMAIN mails) = Cardinality(newcomers)
        /\ Cardinality(DOMAIN mails) >= 2

\* C10: an attempt in which the unit of work raises a domain error ends the
\* call at once with that error: nothing is committed, no sleep follows, no
\* further attempt is made and the connection is released.
C10_DomainErrorPropagates ==
    [][\A p \in Procs :
          (/\ runs'[p] = runs[p] + 1
           /\ func(p).error \in DomainErrors)
          => (/\ pc'[p] = "done"
              /\ outcome'[p] = func(p).error
              /\ tables' = tables
              /\ commits'[p] = 0
              /\ sleeps'[p] = sleeps[p]
              /\ attempt'[p] = attempt[p]
              /\ runs'[p] = attempt[p] + 1
              /\ pending'[p] = NoWrite
              /\ pool_in_use' = pool_in_use - 1)]_vars

\* C10 witness: a call ended with a domain error raised in its second
\* attempt, after one sleep, with nothing committed.
C10_Witness ==
    \E p \in Procs :
        /\ pc[p] = "done"
        /\ outcome[p] \in DomainErrors
        /\ attempt[p] = 1 /\ runs[p] = 2
        /\ Len(sleeps[p]) = 1
        /\ commits[p] = 0

\* C11: with n_transaction_retries = n >= 1 the unit of work is never run
\* more than n times in one call, and a call in which every attempt was
\* refused at commit (it ended with no commit and no domain error) ran it
\* exactly n times and ended by raising SerializationError, with nothing
\* committed and no insert left open.
C11_ExhaustionReraises ==
    \A p \in Procs :
        /\ runs[p] <= n_transaction_retries
        /\ (pc[p] = "done" /\ commits[p] = 0 /\ outcome[p] \notin DomainErrors) =>
              /\ outcome[p] = "SerializationError"
              /\ runs[p] = n_transaction_retries
              /\ attempt[p] = n_transaction_retries - 1
              /\ pending[p] = NoWrite
        /\ outcome[p] = "SerializationError" =>
              /\ pc[p] = "done"
              /\ commits[p] = 0
              /\ runs[p] = n_transaction_retries

\* C11 witness: a call of a service with MaxRetries + 1 attempts was refused
\* in each of them and ended with SerializationError.
C11_Witness ==
    \E p \in Procs :
        /\ n_transaction_retries = MaxRetries + 1
        /\ pc[p] = "done"
        /\ outcome[p] = "SerializationError"
        /\ runs[p] = MaxRetries + 1
        /\ commits[p] = 0

\* C12: a get_user request of a caller whose role is not admin ends with the
\* not-found outcome and no account data for every user_id, whether the
\* users table holds that user_id or not, and never reaches the lookup in
\* the store; so what the caller observes does not depend on the target's
\* existence.
C12_NonAdminAlwaysNotFound ==
    \A p \in Procs :
        (req[p].op = "get_user" /\ req[p].role # UserRole_admin) =>
            /\ pc[p] = "done"
            /\ outcome[p] = "NotFound"
            /\ result[p] = NoRow

\* C12 witness: a non-admin caller was answered not-found for a user_id that
\* has a users row, while an admin was given that account.
C12_Witness ==
    \E p, q \in Procs :
        /\ Finished(p, "get_user") /\ req[p].role # UserRole_admin
        /\ outcome[p] = "NotFound"
        /\ UsersWithId(req[p].user_id) # {}
        /\ Finished(q, "get_user") /\ req[q].role = UserRole_admin
        /\ req[q].user_id = req[p].user_id
        /\ outcome[q] = "user"

\* C13 as stated: the users row a verification inserts has the user_id,
\* name, email, password and created_at of the pending signup its token
\* finds, the time of the verification as verified_at, and the role
\* UserRole.user.
C13_PromotedRowFields ==
    [][\A p \in Procs :
          (/\ req[p].op = "verify_newcomer"
           /\ runs'[p] = runs[p] + 1
           /\ pending'[p].table = "users")
          => \E n \in _get_newcomer_by_token(req[p].token) :
                 /\ pending'[p].row.user_id = n.user_id
                 /\ pending'[p].row.name = n.name
                 /\ pending'[p].row.email = n.email
                 /\ pending'[p].row.password = n.password
                 /\ pending'[p].row.created_at = n.created_at
                 /\ pending'[p].row.verified_at = now
                 /\ pending'[p].row.role = UserRole_user]_vars

\* C14 as stated: in every reachable state no newcomers row has the email of
\* a users row.
C14_NoPendingWithAccount ==
    \A n \in newcomers : UsersWithEmail(n.email) = {}

\* C15: a call sleeps only in a step that handles an attempt refused at
\* commit while another attempt remains, and that step commits nothing and
\* leads to the next attempt; the sleeps of a call number as many as the
\* retries it has made, at most n_transaction_retries - 1, and the k-th lasts
\* transaction_retry_interval_first * transaction_retry_interval_factor^(k-1).
C15_BackoffSleeps ==
    /\ [](\A p \in Procs :
            /\ Len(sleeps[p]) = attempt[p]
            /\ Len(sleeps[p]) <= n_transaction_retries - 1
            /\ \A k \in 1..Len(sleeps[p]) :
                  sleeps[p][k] = transaction_retry_interval_first
                                    * transaction_retry_interval_factor ^ (k - 1))
    /\ [][\A p \in Procs :
            Len(sleeps'[p]) > Len(sleeps[p]) =>
                /\ pc[p] = "commit" /\ conflict[p] # "none"
                /\ attempt[p] < n_transaction_retries - 1
                /\ Len(sleeps'[p]) = Len(sleeps[p]) + 1
                /\ pc'[p] = "attempt"
                /\ commits' = commits
                /\ tables' = tables]_vars

\* C15 witness: a call of a service with MaxRetries + 1 attempts and a
\* factor of 3 has slept MaxRetries times, the last sleep longer than the
\* first.
C15_Witness ==
    \E p \in Procs :
        /\ n_transaction_retries = MaxRetries + 1
        /\ transaction_retry_interval_first = 3
        /\ transaction_retry_interval_factor = 3
        /\ Len(sleeps[p]) = MaxRetries
        /\ sleeps[p][MaxRetries] > sleeps[p][1]
        /\ pc[p] = "done"

\* C16: a call commits at most once; the step in which an attempt commits
\* adds that attempt's row and no other, ends the loop (no attempt follows,
\* func is not run again) and leaves as the call's result the value of the
\* committed attempt, which stays the result until the call is answered.
C16_OneCommitOwnResult ==
    /\ [](\A p \in Procs :
            /\ commits[p] <= 1
            /\ commits[p] = 1 =>
                  /\ pc[p] \in {"save_token", "send_mail", "done"}
                  /\ runs[p] = attempt[p] + 1
                  /\ \E n \in newcomers :
                        /\ n.user_id = result[p].user_id
                        /\ n.name = req[p].name /\ n.email = req[p].email
                        /\ n.created_at = result[p].created_at)
    /\ [][\A p \in Procs :
            /\ commits'[p] > commits[p] =>
                  /\ newcomers' = newcomers \cup {pending[p].row}
                  /\ pending[p].row \notin newcomers
                  /\ result'[p] = Returning(pending[p])
                  /\ runs'[p] = runs[p]
            /\ (commits[p] = 1 /\ pc'[p] # "idle") =>
                  /\ result'[p] = result[p]
                  /\ runs'[p] = runs[p]
                  /\ commits'[p] = 1]_vars

\* C16 witness: a call of a service with MaxRetries + 1 attempts committed
\* in its last attempt, after MaxRetries refused ones, and holds the
\* committed row, of user_id MaxCap + 1, as its result.
C16_Witness ==
    \E p \in Procs :
        /\ n_transaction_retries = MaxRetries + 1
        /\ commits[p] = 1 /\ runs[p] = MaxRetries + 1
        /\ pc[p] = "done" /\ outcome[p] = "created"
        /\ result[p].user_id = MaxCap + 1
        /\ \E n \in newcomers : n.user_id = result[p].user_id

\* C17: an attempt refused at commit leaves the tables as they were; every
\* attempt runs the checks of func anew, and a retried attempt whose checks
\* fail against the rows then committed ends the call with that domain
\* error and no insert; a row enters newcomers only by the one commit of a
\* create_newcomer call and users only by the one commit of a
\* verify_newcomer call, one row per commit, so a call adds at most one row.
C17_OneRowPerCall ==
    /\ [](\A p \in Procs :
            /\ commits[p] <= 1
            /\ pc[p] = "commit" => runs[p] = attempt[p] + 1)
    /\ [][ /\ newcomers' # newcomers =>
               \E p \in Procs :
                   /\ req[p].op = "create_newcomer"
                   /\ commits[p] = 0 /\ commits'[p] = 1
                   /\ newcomers' = newcomers \cup {pending[p].row}
                   /\ users' = users
           /\ users' # users =>
               \E p \in Procs :
                   /\ req[p].op = "verify_newcomer"
                   /\ commits[p] = 0 /\ commits'[p] = 1
                   /\ users' = Append(users, pending[p].row)
                   /\ newcomers' = newcomers
           /\ \A p \in Procs :
                 /\ (/\ pc[p] = "commit" /\ pc'[p] # "commit"
                     /\ commits'[p] = commits[p]) =>
                       tables' = tables
                 /\ (/\ attempt[p] > 0
                     /\ runs'[p] = runs[p] + 1
                     /\ func(p).error # "none") =>
                       /\ pc'[p] = "done"
                       /\ outcome'[p] = func(p).error
                       /\ commits'[p] = 0
                       /\ tables' = tables]_vars

\* C17 witness: a verification refused at commit by a concurrent one of the
\* same email ran again, found the account and ended with UserAlreadyExists;
\* the email has one users row.
C17_Witness ==
    \E p \in Procs, n \in newcomers :
        /\ Finished(p, "verify_newcomer")
        /\ n \in TokenNewcomers(req[p].token)
        /\ runs[p] = 2 /\ commits[p] = 0
        /\ outcome[p] = "UserAlreadyExists"
        /\ Cardinality(UsersWithEmail(n.email)) = 1
        /\ UsersWithId(n.user_id) = {}

\* The tasks inside async with self.pool.acquire()
HoldingConnection == {p \in Procs : pc[p] \in {"attempt", "commit"}}

\* C18: the connections checked out of the pool are one for each call inside
\* execute_serializable_transaction, never more than the pool has; a call
\* takes its connection once, keeps it over a retry, and gives it back in the
\* step in which it leaves by commit, by a domain error or by the
\* SerializationError of its last attempt; so when no call is inside, none
\* is checked out.
C18_OneConnectionPerCall ==
    /\ [](/\ pool_in_use = Cardinality(HoldingConnection)
          /\ pool_in_use <= PoolSize)
    /\ [][\A p \in Procs :
            /\ (p \notin HoldingConnection /\ p \in HoldingConnection') =>
                  /\ pc[p] = "acquire" /\ attempt'[p] = 0 /\ runs[p] = 0
                  /\ pool_in_use' = pool_in_use + 1
            /\ (/\ p \in HoldingConnection /\ p \in HoldingConnection'
                /\ pc'[p] # pc[p]) =>
                  pool_in_use' = pool_in_use
            /\ (p \in HoldingConnection /\ p \notin HoldingConnection') =>
                  /\ pool_in_use' = pool_in_use - 1
                  /\ \/ commits'[p] = 1
                     \/ outcome'[p] \in DomainErrors
                     \/ /\ outcome'[p] = "SerializationError"
                        /\ attempt[p] = n_transaction_retries - 1]_vars

\* C18 witness: all MaxCalls requests are over, calls among them left by
\* commit, by a domain error and by exhausting a service of MaxRetries
\* attempts, and no connection is checked out.
C18_Witness ==
    /\ calls = MaxCalls
    /\ n_transaction_retries = MaxRetries
    /\ \A p \in Procs : pc[p] \in {"idle", "done"}
    /\ pool_in_use = 0
    /\ newcomers # {}
    /\ \E p, q \in Procs :
          /\ pc[p] = "done" /\ outcome[p] = "SerializationError"
          /\ runs[p] = MaxRetries
          /\ pc[q] = "done" /\ outcome[q] \in DomainErrors

\* C19: no step of a create_newcomer request, whether it ends created or
\* with an error, changes the users table; the table grows only by the
\* commit of a verify_newcomer call; and in every reachable state each users
\* row has the user_id, name, email, password and created_at of a newcomers
\* row, no two users rows having the same user_id.
C19_AccountsOnlyByVerification ==
    /\ [](/\ \A i \in DOMAIN users :
                \E n \in newcomers :
                    /\ n.user_id = users[i].user_id
                    /\ n.name = users[i].name
                    /\ n.email = users[i].email
                    /\ n.password = users[i].password
                    /\ n.created_at = users[i].created_at
          /\ \A n \in newcomers : Cardinality(UsersWithId(n.user_id)) <= 1)
    /\ [][ /\ \A p \in Procs :
                 (/\ pc'[p] # pc[p]
                  /\ "create_newcomer" \in {req[p].op, req'[p].op}) =>
                     users' = users
           /\ users' # users =>
                 \E p \in Procs :
                     /\ req[p].op = "verify_newcomer"
                     /\ pc[p] = "commit"
                     /\ outcome'[p] = "verified"
                     /\ Len(users') = Len(users) + 1]_vars

\* C19 witness: with one account committed by a verification, a later
\* registration ended created and another was refused, and users still has
\* that one row.
C19_Witness ==
    \E p, q \in Procs :
        /\ Len(users) = 1
        /\ Finished(p, "create_newcomer") /\ outcome[p] = "created"
        /\ users[1].user_id # result[p].user_id
        /\ Finished(q, "create_newcomer") /\ outcome[q] = "UserAlreadyExists"

\* C20: a call that has returned a value to its caller has run func and
\* committed one attempt, whose value it returned; and with
\* n_transaction_retries <= 0 no call ever runs func or commits, the tables
\* stay empty, and every call that is over has ended in an error.
C20_NoReturnWithoutCommit ==
    \A p \in Procs :
        /\ (\/ pc[p] \in {"save_token", "send_mail"}
            \/ outcome[p] \in {"created", "verified"}) =>
              /\ commits[p] = 1
              /\ runs[p] >= 1
              /\ result[p] # NoRow
        /\ n_transaction_retries <= 0 =>
              /\ runs[p] = 0 /\ commits[p] = 0
              /\ result[p] = NoRow
              /\ newcomers = {} /\ registration_tokens = {} /\ users = <<>>
              /\ pc[p] \in {"idle", "acquire", "done"}
              /\ pc[p] = "done" => outcome[p] = "UnboundLocalError"

\* C20 witness: on a service with n_transaction_retries = 0 two calls are
\* over, both in error, with func never run.
C20_Witness ==
    /\ n_transaction_retries = 0
    /\ calls >= 2
    /\ \A p \in Procs :
          /\ pc[p] = "done"
          /\ outcome[p] = "UnboundLocalError"
          /\ runs[p] = 0

\* C20 witness of the other case: n_transaction_retries negative.
C20_WitnessNegative ==
    \E p \in Procs :
        /\ n_transaction_retries < 0
        /\ pc[p] = "done"
        /\ outcome[p] = "UnboundLocalError"

====
